---- MODULE Spec2Model ----
(***************************************************************************)
(* The NEP-141 fungible token of near-contract-standards                   *)
(* (src/near-contract-standards/src/fungible_token.rs): the balance        *)
(* ledger, the transfer primitives, the two-phase ft_transfer_call /       *)
(* ft_resolve_transfer protocol and the storage manager.                   *)
(*                                                                         *)
(* Every contract method is an operator on an execution context `c`        *)
(* (the contract struct `self`, the logs written so far, the promises      *)
(* created and the native value paid out so far, the panic raised if any,  *)
(* the return value), written statement by statement after the Rust code. *)
(* One action per entry point runs the method on the current state and     *)
(* hands the final context to the host, which commits it or, after a       *)
(* panic, discards it.  The outcome of an invocation (status, committed    *)
(* ledger, logs, promises, return value) is what the properties speak of:  *)
(* in every reachable state, for every call the action may make.           *)
(***************************************************************************)
EXTENDS Integers, Sequences, FiniteSets, Bags, TLC

\* ------------------------------------------------------------------ bounds
\* Balance is u128; the model keeps the width and scales it down.
U128Max == 2
\* Continuations (ft_on_transfer + ft_resolve_transfer) in flight at once.
MaxPending == 1
\* account_storage_usage (bytes of one ledger entry) and env::storage_byte_cost().
AccountStorageUsage == 2
StorageByteCost == 1

\* ------------------------------------------------------------- identifiers
AccountIds == {"alice", "bob", "carol"}
\* env::current_account_id(): the account the contract is deployed on.
CurrentAccountId == "token"
NoAccount == "none"
\* Option::None of a checked operation / a map lookup.
None == -1
\* The trap of an unchecked operation in a build with overflow checks.
Trap == -2
NoPanic == "ok"

VARIABLES
    accounts,         \* FungibleToken.accounts: LookupMap<AccountId, Balance>
    total_supply,     \* FungibleToken.total_supply
    promises,         \* bag of scheduled ft_resolve_transfer continuations
    recording,        \* whether the run keeps the history below
    unsettled,        \* history: bag of notify-transfers dispatched and not yet resolved
    replayed,         \* history: a resolution completed that no unsettled notify-transfer asked for
    trail             \* history: how far the run is into the scenario of a refund out of foreign value

vars == <<accounts, total_supply, promises, recording, unsettled, replayed, trail>>

\* ------------------------------------------------------------ LookupMap
get(m, k) == IF k \in DOMAIN m THEN m[k] ELSE None
insert(m, k, v) == [x \in (DOMAIN m) \cup {k} |-> IF x = k THEN v ELSE m[x]]
remove(m, k) == [x \in (DOMAIN m) \ {k} |-> m[x]]
EmptyMap == [x \in {} |-> 0]

\* ------------------------------------------------------------ u128 arithmetic
checked_add(a, b) == IF a + b <= U128Max THEN a + b ELSE None
checked_sub(a, b) == IF a >= b THEN a - b ELSE None
\* `a + b` and `a - b` on u128 without a check: a trap in a build with overflow
\* checks, two's-complement wrap-around in one without.
unchecked_add(a, b, overflow_checks) ==
    IF a + b <= U128Max THEN a + b
    ELSE IF overflow_checks THEN Trap ELSE (a + b) % (U128Max + 1)
unchecked_sub(a, b, overflow_checks) ==
    IF a >= b THEN a - b
    ELSE IF overflow_checks THEN Trap ELSE (a - b) + (U128Max + 1)
min(a, b) == IF a <= b THEN a ELSE b

\* ------------------------------------------------------------ execution context
Self(acc, ts) == [accounts |-> acc, total_supply |-> ts]
\* overflow_checks: the profile the running code was built with.
Ctx(self, overflow_checks) ==
    [self |-> self, logs |-> <<>>, created |-> EmptyBag, paid |-> 0,
     panic |-> NoPanic, ret |-> None, overflow_checks |-> overflow_checks]
panic(c, msg) == IF c.panic = NoPanic THEN [c EXCEPT !.panic = msg] ELSE c
Log(kind, amount, from, to) == [kind |-> kind, amount |-> amount, from |-> from, to |-> to]
log(c, line) == IF c.panic = NoPanic THEN [c EXCEPT !.logs = Append(@, line)] ELSE c
PromiseOf(sender_id, receiver_id, amount) ==
    [sender_id |-> sender_id, receiver_id |-> receiver_id, amount |-> amount]

\* ------------------------------------------------------------ promise results
Failed == [status |-> "Failed", json |-> "none", num |-> 0]
Successful(json, num) == [status |-> "Successful", json |-> json, num |-> num]
NoResult == [status |-> "none", json |-> "none", num |-> 0]
\* What ft_on_transfer may hand back: a JSON string holding a decimal numeral
\* (the wire format of U128), one numeral too large for u128, or JSON of another shape.
PromiseResults ==
    {Failed, Successful("number", 0)}
        \cup {Successful("string", n) : n \in 0..(U128Max + 1)}
\* serde_json::from_slice::<U128>: Ok(n) for a JSON string whose numeral fits u128.
from_slice_U128(value) ==
    IF value.json = "string" /\ value.num <= U128Max THEN value.num ELSE None

\* ------------------------------------------------------------ near_sdk::utils
\* assert_one_yocto(): the attached deposit is exactly 1 yoctoNEAR.
assert_one_yocto(c, attached_deposit) ==
    IF attached_deposit = 1 THEN c
    ELSE panic(c, "Requires attached deposit of exactly 1 yoctoNEAR")
\* assert_self(): the predecessor is the contract's own account.
assert_self(c, predecessor) ==
    IF predecessor = CurrentAccountId THEN c ELSE panic(c, "Method is private")
\* The result of an unchecked operation: a trap aborts the invocation.
trapped(c, v) == IF v = Trap THEN panic(c, "arithmetic overflow") ELSE c

\* ------------------------------------------------------------ FungibleToken
storage_minimum_balance == AccountStorageUsage * StorageByteCost

\* Variant: total_supply is added to without a check and wraps around.
internal_deposit_wrapping_total(c, account_id, amount) ==
    LET balance == get(c.self.accounts, account_id) IN
    IF c.panic # NoPanic THEN c
    ELSE IF balance = None THEN panic(c, "The account is not registered")
    ELSE LET new_balance == checked_add(balance, amount) IN
         IF new_balance # None
         THEN [c EXCEPT !.self.accounts = insert(@, account_id, new_balance),
                        !.self.total_supply = (@ + amount) % (U128Max + 1)]
         ELSE panic(c, "Balance overflow")

\* Variant: the credit forgets total_supply.
internal_deposit_keeps_supply(c, account_id, amount) ==
    LET balance == get(c.self.accounts, account_id) IN
    IF c.panic # NoPanic THEN c
    ELSE IF balance = None THEN panic(c, "The account is not registered")
    ELSE LET new_balance == checked_add(balance, amount) IN
         IF new_balance # None
         THEN [c EXCEPT !.self.accounts = insert(@, account_id, new_balance)]
         ELSE panic(c, "Balance overflow")

\* Variant: a credit to an account without an entry is dropped instead of failing.
internal_deposit_silent(c, account_id, amount) ==
    LET balance == get(c.self.accounts, account_id) IN
    IF c.panic # NoPanic THEN c
    ELSE IF balance = None THEN c
    ELSE LET new_balance == checked_add(balance, amount) IN
         IF new_balance # None
         THEN LET c1 == [c EXCEPT !.self.accounts = insert(@, account_id, new_balance)]
                  new_total == checked_add(c.self.total_supply, amount) IN
              IF new_total = None THEN panic(c1, "Total supply overflow")
              ELSE [c1 EXCEPT !.self.total_supply = new_total]
         ELSE panic(c, "Balance overflow")

internal_deposit(c, account_id, amount) ==
    LET balance == get(c.self.accounts, account_id) IN
    IF c.panic # NoPanic THEN c
    ELSE IF balance = None THEN panic(c, "The account is not registered")
    ELSE LET new_balance == checked_add(balance, amount) IN
         IF new_balance # None
         THEN LET c1 == [c EXCEPT !.self.accounts = insert(@, account_id, new_balance)]
                  new_total == checked_add(c.self.total_supply, amount) IN
              IF new_total = None THEN panic(c1, "Total supply overflow")
              ELSE [c1 EXCEPT !.self.total_supply = new_total]
         ELSE panic(c, "Balance overflow")

\* Variant: the debit forgets total_supply.
internal_withdraw_keeps_supply(c, account_id, amount) ==
    LET balance == get(c.self.accounts, account_id) IN
    IF c.panic # NoPanic THEN c
    ELSE IF balance = None THEN panic(c, "The account is not registered")
    ELSE LET new_balance == checked_sub(balance, amount) IN
         IF new_balance # None
         THEN [c EXCEPT !.self.accounts = insert(@, account_id, new_balance)]
         ELSE panic(c, "The account doesn't have enough balance")

\* Variant: the debit subtracts with wrap-around instead of checked_sub.
internal_withdraw_wrapping(c, account_id, amount) ==
    LET balance == get(c.self.accounts, account_id) IN
    IF c.panic # NoPanic THEN c
    ELSE IF balance = None THEN panic(c, "The account is not registered")
    ELSE LET new_balance == (balance - amount) % (U128Max + 1)
             c1 == [c EXCEPT !.self.accounts = insert(@, account_id, new_balance)]
             new_total == checked_sub(c.self.total_supply, amount) IN
         IF new_total = None THEN panic(c1, "Total supply overflow")
         ELSE [c1 EXCEPT !.self.total_supply = new_total]

internal_withdraw(c, account_id, amount) ==
    LET balance == get(c.self.accounts, account_id) IN
    IF c.panic # NoPanic THEN c
    ELSE IF balance = None THEN panic(c, "The account is not registered")
    ELSE LET new_balance == checked_sub(balance, amount) IN
         IF new_balance # None
         THEN LET c1 == [c EXCEPT !.self.accounts = insert(@, account_id, new_balance)]
                  new_total == checked_sub(c.self.total_supply, amount) IN
              IF new_total = None THEN panic(c1, "Total supply overflow")
              ELSE [c1 EXCEPT !.self.total_supply = new_total]
         ELSE panic(c, "The account doesn't have enough balance")

\* Variant: the debit and the credit name each other's account.
internal_transfer_swapped(c, sender_id, receiver_id, amount, memo) ==
    IF c.panic # NoPanic THEN c
    ELSE IF sender_id = receiver_id
    THEN panic(c, "Sender and receiver should be different")
    ELSE IF ~(amount > 0) THEN panic(c, "The amount should be a positive number")
    ELSE LET c1 == internal_withdraw(c, receiver_id, amount)
             c2 == internal_deposit(c1, sender_id, amount)
             c3 == log(c2, Log("Transfer", amount, sender_id, receiver_id)) IN
         IF c2.panic # NoPanic THEN c2
         ELSE IF memo THEN log(c3, Log("Memo", 0, NoAccount, NoAccount)) ELSE c3

internal_transfer(c, sender_id, receiver_id, amount, memo) ==
    IF c.panic # NoPanic THEN c
    ELSE IF sender_id = receiver_id
    THEN panic(c, "Sender and receiver should be different")
    ELSE IF ~(amount > 0) THEN panic(c, "The amount should be a positive number")
    ELSE LET c1 == internal_withdraw(c, sender_id, amount)
             c2 == internal_deposit(c1, receiver_id, amount)
             c3 == log(c2, Log("Transfer", amount, sender_id, receiver_id)) IN
         IF c2.panic # NoPanic THEN c2
         ELSE IF memo THEN log(c3, Log("Memo", 0, NoAccount, NoAccount)) ELSE c3

internal_register_account(c, account_id) ==
    LET was == get(c.self.accounts, account_id)
        c1 == [c EXCEPT !.self.accounts = insert(@, account_id, 0)] IN
    IF c.panic # NoPanic THEN c
    ELSE IF was # None THEN panic(c1, "The account is already registered")
    ELSE c1

\* ------------------------------------------------------------ FungibleTokenCore
ft_transfer(c, predecessor, attached_deposit, receiver_id, amount, memo) ==
    LET c1 == assert_one_yocto(c, attached_deposit)
        sender_id == predecessor IN
    internal_transfer(c1, sender_id, receiver_id, amount, memo)

\* Gas, in Tgas.
GAS_FOR_RESOLVE_TRANSFER == 5
GAS_FOR_FT_TRANSFER_CALL == 25 + GAS_FOR_RESOLVE_TRANSFER

\* Variant: the notification is sent without the phase-1 transfer.
ft_transfer_call_notify_only(c, predecessor, attached_deposit, prepaid_gas, receiver_id, amount, memo) ==
    LET c1 == assert_one_yocto(c, attached_deposit)
        sender_id == predecessor
        c3 == IF prepaid_gas < GAS_FOR_FT_TRANSFER_CALL
              THEN panic(c1, "Exceeded the prepaid gas") ELSE c1 IN
    IF c3.panic # NoPanic THEN c3
    ELSE [c3 EXCEPT !.created = @ (+) SetToBag({PromiseOf(sender_id, receiver_id, amount)})]

\* ft_on_transfer on the receiver, then ft_resolve_transfer on this contract with
\* (sender_id, receiver_id, amount).  With less prepaid gas than
\* GAS_FOR_FT_TRANSFER_CALL the subtraction traps, or wraps to more gas than
\* the invocation holds and the host refuses the promise: the invocation aborts.
ft_transfer_call(c, predecessor, attached_deposit, prepaid_gas, receiver_id, amount, memo) ==
    LET c1 == assert_one_yocto(c, attached_deposit)
        sender_id == predecessor
        c2 == internal_transfer(c1, sender_id, receiver_id, amount, memo)
        c3 == IF prepaid_gas < GAS_FOR_FT_TRANSFER_CALL
              THEN panic(c2, "Exceeded the prepaid gas") ELSE c2 IN
    IF c3.panic # NoPanic THEN c3
    ELSE [c3 EXCEPT !.created = @ (+) SetToBag({PromiseOf(sender_id, receiver_id, amount)})]

ft_total_supply(self) == self.total_supply

ft_balance_of(self, account_id) ==
    LET b == get(self.accounts, account_id) IN IF b = None THEN 0 ELSE b

\* ------------------------------------------------------------ FungibleTokenResolver
\* Variant: the receiver's report is taken as it is, without min(amount, _).
unused_amount_trusting(amount, result) ==
    IF result.status = "Successful"
    THEN LET parsed == from_slice_U128(result) IN
         IF parsed # None THEN parsed ELSE amount
    ELSE amount

\* The unused amount from the `ft_on_transfer` call result.
unused_amount_of(amount, result) ==
    IF result.status = "Successful"
    THEN LET parsed == from_slice_U128(result) IN
         IF parsed # None THEN min(amount, parsed) ELSE amount
    ELSE amount

\* Variant: the refund proceeds whatever the receiver holds.
needs_refund_any_balance(unused_amount, receiver_balance) == unused_amount > 0

\* Variant: nothing is taken back from the receiver.
refund_amount_nothing(receiver_balance, unused_amount) == 0

\* Variant: the refund is the unused amount, as if the receiver still held what
\* it held after phase 1.
refund_amount_unclamped(receiver_balance, unused_amount) == unused_amount

\* `if unused_amount > 0 { ... if receiver_balance > 0 {`
needs_refund(unused_amount, receiver_balance) == unused_amount > 0 /\ receiver_balance > 0

refund_amount_of(receiver_balance, unused_amount) == min(receiver_balance, unused_amount)

\* Variant: the sender is credited with the whole amount.
resolve_refund_credits_amount(c, sender_id, receiver_id, amount, refund_amount, sender_balance) ==
    LET new_sender == unchecked_add(sender_balance, amount, c.overflow_checks)
        c1 == trapped(c, new_sender)
        c2 == [c1 EXCEPT !.self.accounts = insert(@, sender_id, new_sender)]
        c3 == log(c2, Log("Refund", refund_amount, receiver_id, sender_id))
        used == unchecked_sub(amount, refund_amount, c.overflow_checks)
        c4 == trapped(c3, used) IN
    IF c1.panic # NoPanic THEN c1
    ELSE IF c4.panic # NoPanic THEN c4
    ELSE [c4 EXCEPT !.ret = used]

\* Variant: the refund branch returns the full amount.
resolve_refund_returns_amount(c, sender_id, receiver_id, amount, refund_amount, sender_balance) ==
    LET new_sender == unchecked_add(sender_balance, refund_amount, c.overflow_checks)
        c1 == trapped(c, new_sender)
        c2 == [c1 EXCEPT !.self.accounts = insert(@, sender_id, new_sender)]
        c3 == log(c2, Log("Refund", refund_amount, receiver_id, sender_id)) IN
    IF c1.panic # NoPanic THEN c1
    ELSE [c3 EXCEPT !.ret = amount]

\* The sender is registered: the refund goes back and amount - refund is returned.
resolve_refund(c, sender_id, receiver_id, amount, refund_amount, sender_balance) ==
    LET new_sender == unchecked_add(sender_balance, refund_amount, c.overflow_checks)
        c1 == trapped(c, new_sender)
        c2 == [c1 EXCEPT !.self.accounts = insert(@, sender_id, new_sender)]
        c3 == log(c2, Log("Refund", refund_amount, receiver_id, sender_id))
        used == unchecked_sub(amount, refund_amount, c.overflow_checks)
        c4 == trapped(c3, used) IN
    IF c1.panic # NoPanic THEN c1
    ELSE IF c4.panic # NoPanic THEN c4
    ELSE [c4 EXCEPT !.ret = used]

\* Variant: the burn branch takes the whole amount off total_supply.
resolve_burn_whole_amount(c, amount, refund_amount) ==
    LET new_total == unchecked_sub(c.self.total_supply, amount, c.overflow_checks)
        c1 == trapped(c, new_total)
        c2 == [c1 EXCEPT !.self.total_supply = new_total]
        c3 == log(c2, Log("SenderDeleted", 0, NoAccount, NoAccount))
        c4 == log(c3, Log("Burn", refund_amount, NoAccount, NoAccount)) IN
    IF c1.panic # NoPanic THEN c1
    ELSE [c4 EXCEPT !.ret = amount]

\* Variant: the burn branch leaves total_supply as it is.
resolve_burn_keeps_supply(c, amount, refund_amount) ==
    LET c3 == log(c, Log("SenderDeleted", 0, NoAccount, NoAccount))
        c4 == log(c3, Log("Burn", refund_amount, NoAccount, NoAccount)) IN
    [c4 EXCEPT !.ret = amount]

\* Sender's account was deleted, so the tokens are burnt.
resolve_burn(c, amount, refund_amount) ==
    LET new_total == unchecked_sub(c.self.total_supply, refund_amount, c.overflow_checks)
        c1 == trapped(c, new_total)
        c2 == [c1 EXCEPT !.self.total_supply = new_total]
        c3 == log(c2, Log("SenderDeleted", 0, NoAccount, NoAccount))
        c4 == log(c3, Log("Burn", refund_amount, NoAccount, NoAccount)) IN
    IF c1.panic # NoPanic THEN c1
    ELSE [c4 EXCEPT !.ret = amount]

\* Variant: a sender without an entry is read as holding zero and refunded.
resolve_transfer_recreating_sender(c, sender_id, receiver_id, amount, result) ==
    LET unused_amount == unused_amount_of(amount, result)
        receiver_balance == ft_balance_of(c.self, receiver_id)
        refund_amount == refund_amount_of(receiver_balance, unused_amount)
        new_receiver == unchecked_sub(receiver_balance, refund_amount, c.overflow_checks)
        c1 == trapped(c, new_receiver)
        c2 == [c1 EXCEPT !.self.accounts = insert(@, receiver_id, new_receiver)]
        sender_balance == ft_balance_of(c2.self, sender_id) IN
    IF c.panic # NoPanic THEN c
    ELSE IF needs_refund(unused_amount, receiver_balance)
    THEN IF c1.panic # NoPanic THEN c1
         ELSE resolve_refund(c2, sender_id, receiver_id, amount, refund_amount, sender_balance)
    ELSE [c EXCEPT !.ret = amount]

\* The body of ft_resolve_transfer after assert_self().
resolve_transfer(c, sender_id, receiver_id, amount, result) ==
    LET unused_amount == unused_amount_of(amount, result)
        receiver_balance == ft_balance_of(c.self, receiver_id)
        refund_amount == refund_amount_of(receiver_balance, unused_amount)
        new_receiver == unchecked_sub(receiver_balance, refund_amount, c.overflow_checks)
        c1 == trapped(c, new_receiver)
        c2 == [c1 EXCEPT !.self.accounts = insert(@, receiver_id, new_receiver)]
        sender_balance == get(c2.self.accounts, sender_id) IN
    IF c.panic # NoPanic THEN c
    ELSE IF needs_refund(unused_amount, receiver_balance)
    THEN IF c1.panic # NoPanic THEN c1
         ELSE IF sender_balance # None
         THEN resolve_refund(c2, sender_id, receiver_id, amount, refund_amount, sender_balance)
         ELSE resolve_burn(c2, amount, refund_amount)
    ELSE [c EXCEPT !.ret = amount]

\* Variant: the sender named in the arguments may call the method as well.
ft_resolve_transfer_sender_too(c, predecessor, sender_id, receiver_id, amount, result) ==
    IF predecessor = sender_id
    THEN resolve_transfer(c, sender_id, receiver_id, amount, result)
    ELSE resolve_transfer(assert_self(c, predecessor), sender_id, receiver_id, amount, result)

\* Variant: the method does not ask who calls it.
ft_resolve_transfer_public(c, predecessor, sender_id, receiver_id, amount, result) ==
    resolve_transfer(c, sender_id, receiver_id, amount, result)

ft_resolve_transfer(c, predecessor, sender_id, receiver_id, amount, result) ==
    resolve_transfer(assert_self(c, predecessor), sender_id, receiver_id, amount, result)

\* ------------------------------------------------------------ StorageManager
\* Variant: the account is registered whatever is attached.
storage_deposit_any_amount(c, predecessor, attached_deposit, account_id) ==
    LET amount == attached_deposit
        who == IF account_id # NoAccount THEN account_id ELSE predecessor
        c2 == internal_register_account(c, who) IN
    IF c2.panic # NoPanic THEN c2 ELSE [c2 EXCEPT !.ret = amount]

\* account_id: the account to register, or NoAccount for the predecessor.
storage_deposit(c, predecessor, attached_deposit, account_id) ==
    LET amount == attached_deposit
        who == IF account_id # NoAccount THEN account_id ELSE predecessor
        c1 == IF amount = storage_minimum_balance THEN c
              ELSE panic(c, "Requires attached deposit of the exact storage minimum balance")
        c2 == internal_register_account(c1, who) IN
    IF c2.panic # NoPanic THEN c2 ELSE [c2 EXCEPT !.ret = amount]

\* Variant: the entry is removed whatever it holds.
storage_withdraw_any_balance(c, predecessor, attached_deposit, amount) ==
    LET c1 == assert_one_yocto(c, attached_deposit)
        c2 == IF amount = storage_minimum_balance THEN c1
              ELSE panic(c1, "The withdrawal amount should be the exact storage minimum balance")
        account_id == predecessor
        balance == get(c2.self.accounts, account_id)
        c3 == [c2 EXCEPT !.self.accounts = remove(@, account_id)] IN
    IF c2.panic # NoPanic THEN c2
    ELSE IF balance # None
    THEN [c3 EXCEPT !.paid = amount + 1, !.ret = 0]
    ELSE panic(c3, "The account is not registered")

\* On success the storage deposit and the attached yocto go back to the
\* account: Promise::new(account_id).transfer(amount + 1).  Native amounts are
\* u128 as well, and orders of magnitude below its maximum: they are not scaled
\* down with the token balances.
storage_withdraw(c, predecessor, attached_deposit, amount) ==
    LET c1 == assert_one_yocto(c, attached_deposit)
        c2 == IF amount = storage_minimum_balance THEN c1
              ELSE panic(c1, "The withdrawal amount should be the exact storage minimum balance")
        account_id == predecessor
        balance == get(c2.self.accounts, account_id)
        c3 == [c2 EXCEPT !.self.accounts = remove(@, account_id)] IN
    IF c2.panic # NoPanic THEN c2
    ELSE IF balance # None
    THEN IF balance > 0 THEN panic(c3, "The account has positive token balance")
         ELSE [c3 EXCEPT !.paid = amount + 1, !.ret = 0]
    ELSE panic(c3, "The account is not registered")

\* (total, available) of an account's storage balance.
storage_balance_of(self, account_id) ==
    LET balance == get(self.accounts, account_id) IN
    IF balance # None
    THEN [total |-> storage_minimum_balance,
          available |-> IF balance > 0 THEN 0 ELSE storage_minimum_balance]
    ELSE [total |-> 0, available |-> 0]

\* ------------------------------------------------------------ the host
\* A panic aborts the invocation: nothing it wrote, logged or scheduled is kept.
Committed(pre, c) == IF c.panic = NoPanic THEN c.self ELSE pre

\* The context an invocation starts from.
Here(overflow_checks) == Ctx(Self(accounts, total_supply), overflow_checks)

\* What an invocation that ran to context c leaves: its status, the ledger
\* after it, its logs, the continuations it scheduled, its return value, the
\* deposit it kept (returned to the caller when it aborts) and the native
\* value it paid out.
Outcome(c, attached_deposit) ==
    LET ok == c.panic = NoPanic
        post == Committed(Self(accounts, total_supply), c) IN
    [ok |-> ok, panic |-> c.panic,
     accounts |-> post.accounts, total_supply |-> post.total_supply,
     logs |-> IF ok THEN c.logs ELSE <<>>,
     created |-> IF ok THEN c.created ELSE EmptyBag,
     ret |-> IF ok THEN c.ret ELSE None,
     deposit |-> IF ok THEN attached_deposit ELSE 0,
     paid |-> IF ok THEN c.paid ELSE 0]

\* The calls the host may deliver.
Amounts == 0..U128Max
AttachedDeposits == {1, storage_minimum_balance}
PrepaidGas == {GAS_FOR_FT_TRANSFER_CALL - 1, GAS_FOR_FT_TRANSFER_CALL + 1}
InternalCalls == [account_id : AccountIds, amount : Amounts]
StorageDepositCalls ==
    [predecessor : AccountIds, attached_deposit : AttachedDeposits,
     account_id : AccountIds \cup {NoAccount}]
StorageWithdrawCalls ==
    [predecessor : AccountIds, attached_deposit : AttachedDeposits,
     amount : {storage_minimum_balance, storage_minimum_balance + 1}]
FtTransferCalls ==
    [predecessor : AccountIds, attached_deposit : AttachedDeposits,
     receiver_id : AccountIds, amount : Amounts, memo : BOOLEAN]
FtTransferCallCalls ==
    [predecessor : AccountIds, attached_deposit : AttachedDeposits, prepaid_gas : PrepaidGas,
     receiver_id : AccountIds, amount : Amounts, memo : BOOLEAN]
\* A scheduled continuation, fired with the notification's result.
Callbacks ==
    [promise : BagToSet(promises), result : PromiseResults, overflow_checks : BOOLEAN]
\* ft_resolve_transfer is a public method: any account may call it with
\* arguments and a result of its choosing.
ExternalResolveCalls ==
    [predecessor : AccountIds, sender_id : AccountIds, receiver_id : AccountIds,
     amount : Amounts, result : {Failed, Successful("string", 0)},
     overflow_checks : BOOLEAN]

\* The outcome of each call in the current state.
DoInternalDeposit(call) ==
    Outcome(internal_deposit(Here(TRUE), call.account_id, call.amount), 0)
DoInternalWithdraw(call) ==
    Outcome(internal_withdraw(Here(TRUE), call.account_id, call.amount), 0)
DoStorageDeposit(call) ==
    Outcome(storage_deposit(Here(TRUE), call.predecessor, call.attached_deposit,
                            call.account_id), call.attached_deposit)
DoStorageWithdraw(call) ==
    Outcome(storage_withdraw(Here(TRUE), call.predecessor, call.attached_deposit,
                             call.amount), call.attached_deposit)
DoFtTransfer(call) ==
    Outcome(ft_transfer(Here(TRUE), call.predecessor, call.attached_deposit,
                        call.receiver_id, call.amount, call.memo), call.attached_deposit)
DoFtTransferCall(call) ==
    Outcome(ft_transfer_call(Here(TRUE), call.predecessor, call.attached_deposit,
                             call.prepaid_gas, call.receiver_id, call.amount, call.memo),
            call.attached_deposit)
DoCallback(cb) ==
    Outcome(ft_resolve_transfer(Here(cb.overflow_checks), CurrentAccountId,
                                cb.promise.sender_id, cb.promise.receiver_id,
                                cb.promise.amount, cb.result), 0)
DoExternalResolve(call) ==
    Outcome(ft_resolve_transfer(Here(call.overflow_checks), call.predecessor,
                                call.sender_id, call.receiver_id, call.amount,
                                call.result), 0)

\* The host ends an invocation with outcome o; `pending` are the continuations
\* still scheduled.
Execute(o, pending) ==
    /\ accounts' = o.accounts
    /\ total_supply' = o.total_supply
    /\ promises' = pending (+) o.created

\* ------------------------------------------------------------ history
\* The history variables record what happened, in a run that is recording; no
\* method reads them.
\* unsettled holds a settlement p = (sender_id, receiver_id, amount) once for
\* every successful ft_transfer_call for p; an invocation of ft_resolve_transfer
\* for p that runs to completion, whoever made it, takes one out, and is a
\* replay when there is none to take.
UnsettledAfter(kind, p, o) ==
    IF ~o.ok THEN unsettled
    ELSE IF kind = "ft_transfer_call" THEN unsettled (+) SetToBag({p})
    ELSE IF kind = "ft_resolve_transfer" THEN unsettled (-) SetToBag({p})
    ELSE unsettled
ReplayedAfter(kind, p, o) ==
    replayed \/ (o.ok /\ kind = "ft_resolve_transfer" /\ ~BagIn(p, unsettled))

\* The scenario trail follows: ScenarioA notify-transfers to ScenarioB
\* ("dispatched"); before the resolution ScenarioB transfers away all it holds
\* ("spent") and then is paid by ScenarioC and by nobody else ("refilled"),
\* while ScenarioC is paid by nobody: what it sends it held at the dispatch.
\* A run that leaves this path, or leaves ScenarioC nothing to send, is no
\* longer followed ("idle").
ScenarioA == "alice"
ScenarioB == "bob"
ScenarioC == "carol"
Idle == [phase |-> "idle", amount |-> 0]
IsTransfer(kind) == kind \in {"ft_transfer", "ft_transfer_call"}
TrailAfter(kind, from, to, amount, o) ==
    LET before == ft_balance_of(Self(accounts, total_supply), ScenarioB)
        after == ft_balance_of(o, ScenarioB)
        c_before == ft_balance_of(Self(accounts, total_supply), ScenarioC)
        c_after == ft_balance_of(o, ScenarioC)
        pending == {p \in BagToSet(promises) :
                        p.sender_id = ScenarioA /\ p.receiver_id = ScenarioB} IN
    IF ~o.ok THEN trail
    ELSE IF trail.phase = "idle"
    THEN IF kind = "ft_transfer_call" /\ from = ScenarioA /\ to = ScenarioB /\ pending = {}
                                        /\ c_after > 0
         THEN [phase |-> "dispatched", amount |-> amount]
         ELSE trail
    ELSE IF kind = "ft_resolve_transfer" /\ from = ScenarioA /\ to = ScenarioB
                                         /\ amount = trail.amount
    THEN Idle
    ELSE IF c_after > c_before THEN Idle
    ELSE IF trail.phase = "dispatched"
    THEN IF c_after = 0 THEN Idle
         ELSE IF IsTransfer(kind) /\ from = ScenarioB /\ after = 0
         THEN [trail EXCEPT !.phase = "spent"]
         ELSE trail
    ELSE IF after > before
    THEN IF IsTransfer(kind) /\ from = ScenarioC /\ to = ScenarioB
         THEN [trail EXCEPT !.phase = "refilled"]
         ELSE Idle
    ELSE IF trail.phase = "spent" /\ c_after = 0 THEN Idle
    ELSE trail

\* What the invocation `kind` with outcome o, moving amount from `from` to `to`,
\* adds to the history.
Observe(kind, from, to, amount, o) ==
    /\ recording' = recording
    /\ unsettled' = IF recording THEN UnsettledAfter(kind, PromiseOf(from, to, amount), o)
                    ELSE unsettled
    /\ replayed' = IF recording THEN ReplayedAfter(kind, PromiseOf(from, to, amount), o)
                   ELSE replayed
    /\ trail' = IF recording THEN TrailAfter(kind, from, to, amount, o) ELSE trail

\* ------------------------------------------------------------ state machine
\* FungibleToken::new(): no account, no supply.
Init ==
    /\ accounts = EmptyMap
    /\ total_supply = 0
    /\ promises = EmptyBag
    /\ recording = FALSE
    /\ unsettled = EmptyBag
    /\ replayed = FALSE
    /\ trail = Idle

\* The same, in a run that keeps the history.
InitRecording ==
    /\ accounts = EmptyMap
    /\ total_supply = 0
    /\ promises = EmptyBag
    /\ recording = TRUE
    /\ unsettled = EmptyBag
    /\ replayed = FALSE
    /\ trail = Idle

\* The embedding contract credits an account (a mint).
InternalDeposit ==
    \E call \in InternalCalls :
        \E o \in {DoInternalDeposit(call)} :
        /\ Execute(o, promises)
        /\ Observe("internal_deposit", NoAccount, call.account_id, call.amount, o)

\* The embedding contract debits an account.
InternalWithdraw ==
    \E call \in InternalCalls :
        \E o \in {DoInternalWithdraw(call)} :
        /\ Execute(o, promises)
        /\ Observe("internal_withdraw", call.account_id, NoAccount, call.amount, o)

StorageDeposit ==
    \E call \in StorageDepositCalls :
        \E o \in {DoStorageDeposit(call)} :
        /\ Execute(o, promises)
        /\ Observe("storage_deposit", NoAccount, NoAccount, 0, o)

StorageWithdraw ==
    \E call \in StorageWithdrawCalls :
        \E o \in {DoStorageWithdraw(call)} :
        /\ Execute(o, promises)
        /\ Observe("storage_withdraw", NoAccount, NoAccount, 0, o)

FtTransfer ==
    \E call \in FtTransferCalls :
        \E o \in {DoFtTransfer(call)} :
        /\ Execute(o, promises)
        /\ Observe("ft_transfer", call.predecessor, call.receiver_id, call.amount, o)

\* Phase 1 and the dispatch of the notification and its continuation.
FtTransferCall ==
    /\ BagCardinality(promises) < MaxPending
    /\ \E call \in FtTransferCallCalls :
           \E o \in {DoFtTransferCall(call)} :
           /\ Execute(o, promises)
           /\ Observe("ft_transfer_call", call.predecessor, call.receiver_id, call.amount, o)

\* The host fires a scheduled continuation, once, with the notification's result.
ResolveCallback ==
    \E cb \in Callbacks :
        \E o \in {DoCallback(cb)} :
        /\ Execute(o, promises (-) SetToBag({cb.promise}))
        /\ Observe("ft_resolve_transfer", cb.promise.sender_id, cb.promise.receiver_id,
                   cb.promise.amount, o)

ResolveExternal ==
    \E call \in ExternalResolveCalls :
        \E o \in {DoExternalResolve(call)} :
        /\ Execute(o, promises)
        /\ Observe("ft_resolve_transfer", call.sender_id, call.receiver_id, call.amount, o)

Next ==
    \/ InternalDeposit
    \/ InternalWithdraw
    \/ StorageDeposit
    \/ StorageWithdraw
    \/ FtTransfer
    \/ FtTransferCall
    \/ ResolveCallback
    \/ ResolveExternal

Spec == Init /\ [][Next]_vars

\* The contract with its history recorded, for the properties that speak of
\* what happened before.
SpecRecording == InitRecording /\ [][Next]_vars

\* ------------------------------------------------------------ vocabulary of the properties
RECURSIVE SumOver(_, _)
SumOver(m, S) ==
    IF S = {} THEN 0
    ELSE LET a == CHOOSE x \in S : TRUE IN m[a] + SumOver(m, S \ {a})
\* The sum of the balances of all registered accounts.
SumOfBalances(m) == SumOver(m, DOMAIN m)
\* balance_of: the balance, zero for an account without an entry.
BalanceIn(m, a) == IF a \in DOMAIN m THEN m[a] ELSE 0
Registered == DOMAIN accounts
LogsOfKind(o, kind) == {i \in 1..Len(o.logs) : o.logs[i].kind = kind}
\* The invocation left the ledger as it found it.
LedgerUnchanged(o) == o.accounts = accounts /\ o.total_supply = total_supply
\* The unused value section 4.3 prescribes for a notification outcome.
ExpectedUnused(amount, result) ==
    IF result.status = "Successful" /\ result.json = "string" /\ result.num <= U128Max
    THEN (IF result.num < amount THEN result.num ELSE amount)
    ELSE amount
\* refund = min(the receiver's balance when the resolution starts, unused).
ExpectedRefund(cb) ==
    LET unused == ExpectedUnused(cb.promise.amount, cb.result)
        held == BalanceIn(accounts, cb.promise.receiver_id) IN
    IF held < unused THEN held ELSE unused
\* What the resolution with outcome o takes from the receiver.
TakenBack(cb, o) ==
    BalanceIn(accounts, cb.promise.receiver_id) - BalanceIn(o.accounts, cb.promise.receiver_id)

\* ------------------------------------------------------------ C1
\* C1: in every reachable state, whatever invocations completed or aborted and
\* whether or not settlements are pending, total_supply equals the sum of the
\* balances of all registered accounts.
C1_TotalSupplyIsSum == total_supply = SumOfBalances(accounts)
\* A settlement is pending whose sender has deregistered, value is held by two
\* accounts, and the supply is their sum.
C1_Witness ==
    /\ \E p \in BagToSet(promises) : p.sender_id \notin Registered
    /\ Cardinality({a \in Registered : accounts[a] > 0}) >= 2
    /\ total_supply = SumOfBalances(accounts)

\* ------------------------------------------------------------ C2
\* C2: every registered account's balance is at least zero and at most total_supply.
C2_BalancesWithinSupply ==
    \A a \in Registered : 0 <= accounts[a] /\ accounts[a] <= total_supply
\* One account holds the whole supply, another is registered with nothing, and a
\* settlement towards the empty one is pending: it spent what it was sent.
C2_Witness ==
    /\ total_supply > 0
    /\ \E a \in Registered : accounts[a] = total_supply
    /\ \E p \in BagToSet(promises) :
           p.receiver_id \in Registered /\ accounts[p.receiver_id] = 0

\* ------------------------------------------------------------ C3
\* C3: a transfer that fails leaves every balance, the registered set and
\* total_supply as they were and schedules nothing; and it fails whenever sender
\* and receiver are the same, the amount is zero, the sender is not registered or
\* holds less than the amount, the receiver is not registered, or the credit
\* would overflow.
C3_FailedTransferChangesNothing ==
    \A call \in FtTransferCalls :
        LET o == DoFtTransfer(call)
            sender_id == call.predecessor IN
        /\ ~o.ok => (LedgerUnchanged(o) /\ o.logs = <<>> /\ o.created = EmptyBag)
        /\ ( \/ sender_id = call.receiver_id
             \/ call.amount = 0
             \/ sender_id \notin Registered
             \/ call.amount > BalanceIn(accounts, sender_id)
             \/ call.receiver_id \notin Registered
             \/ BalanceIn(accounts, call.receiver_id) + call.amount > U128Max )
           => ~o.ok
\* The credit step fails after the debit step: the sender is registered and holds
\* the amount, the receiver has no entry, and the sender keeps what it holds.
C3_Witness ==
    \E call \in FtTransferCalls :
        LET o == DoFtTransfer(call) IN
        /\ call.attached_deposit = 1
        /\ call.predecessor \in Registered
        /\ call.amount > 0
        /\ call.amount <= accounts[call.predecessor]
        /\ call.receiver_id \notin Registered
        /\ ~o.ok
        /\ o.panic = "The account is not registered"
        /\ o.accounts[call.predecessor] = accounts[call.predecessor]

\* ------------------------------------------------------------ C4
\* C4: a successful transfer takes exactly amount from the sender, gives exactly
\* amount to the receiver, leaves every other balance, the registered set and
\* total_supply unchanged, and logs exactly one transfer record (sender, receiver, amount).
C4_SuccessfulTransferEffect ==
    \A call \in FtTransferCalls :
        LET o == DoFtTransfer(call)
            sender_id == call.predecessor IN
        o.ok =>
            /\ DOMAIN o.accounts = Registered
            /\ o.accounts[sender_id] = accounts[sender_id] - call.amount
            /\ o.accounts[call.receiver_id] = accounts[call.receiver_id] + call.amount
            /\ \A a \in Registered \ {sender_id, call.receiver_id} :
                   o.accounts[a] = accounts[a]
            /\ o.total_supply = total_supply
            /\ Cardinality(LogsOfKind(o, "Transfer")) = 1
            /\ \A i \in LogsOfKind(o, "Transfer") :
                   o.logs[i] = Log("Transfer", call.amount, sender_id, call.receiver_id)
\* A transfer of part of the sender's balance, with a third account registered.
C4_Witness ==
    \E call \in FtTransferCalls :
        LET o == DoFtTransfer(call) IN
        /\ o.ok
        /\ o.accounts[call.predecessor] > 0
        /\ Registered \ {call.predecessor, call.receiver_id} # {}

\* ------------------------------------------------------------ C5
\* C5: the unused value of a resolution is amount after a failed notification or
\* an unparseable response and min(amount, reported_unused) after a well-formed
\* one, so what is taken back from the receiver is min(its balance, that unused
\* value) and never more than amount, also when the receiver reports more than it got.
C5_UnusedAmountRule ==
    \A cb \in Callbacks :
        LET o == DoCallback(cb)
            amount == cb.promise.amount
            held == BalanceIn(accounts, cb.promise.receiver_id)
            wellformed == /\ cb.result.status = "Successful"
                          /\ cb.result.json = "string"
                          /\ cb.result.num <= U128Max IN
        o.ok =>
            /\ TakenBack(cb, o) <= amount
            /\ ~wellformed => TakenBack(cb, o) = min(held, amount)
            /\ wellformed => TakenBack(cb, o) = min(held, min(amount, cb.result.num))
\* The receiver reports more unused value than it was sent and holds more than
\* it was sent: exactly amount is taken back.
C5_Witness ==
    \E cb \in Callbacks :
        LET o == DoCallback(cb) IN
        /\ cb.result.status = "Successful"
        /\ cb.result.json = "string"
        /\ cb.result.num <= U128Max
        /\ cb.result.num > cb.promise.amount
        /\ BalanceIn(accounts, cb.promise.receiver_id) > cb.promise.amount
        /\ o.ok
        /\ TakenBack(cb, o) = cb.promise.amount

C7_RefundBranch ==
    \A cb \in Callbacks :
        LET o == DoCallback(cb)
            refund == ExpectedRefund(cb) IN
        (o.ok /\ refund > 0 /\ cb.promise.sender_id \in Registered) =>
            /\ o.accounts = [accounts EXCEPT ![cb.promise.receiver_id] = @ - refund,
                                             ![cb.promise.sender_id] = @ + refund]
            /\ o.total_supply = total_supply
            /\ o.logs = <<Log("Refund", refund, cb.promise.receiver_id, cb.promise.sender_id)>>
            /\ o.ret = cb.promise.amount - refund
\* Scenario 2: the receiver reports part of the amount unused, and that part goes back.
C7_Witness ==
    \E cb \in Callbacks :
        LET o == DoCallback(cb) IN
        /\ cb.result.status = "Successful"
        /\ cb.promise.sender_id \in Registered
        /\ ExpectedRefund(cb) > 0
        /\ ExpectedRefund(cb) < cb.promise.amount
        /\ o.ok
        /\ o.ret > 0
        /\ o.accounts[cb.promise.sender_id] > accounts[cb.promise.sender_id]

\* ------------------------------------------------------------ C8
\* C8: with refund = min(balance(receiver), unused) > 0 and the sender not
\* registered, the resolution takes refund from the receiver, reduces total_supply
\* by exactly refund, credits nobody, logs a burn record and no refund record, and
\* returns the full amount.
C8_BurnBranch ==
    \A cb \in Callbacks :
        LET o == DoCallback(cb)
            refund == ExpectedRefund(cb) IN
        (o.ok /\ refund > 0 /\ cb.promise.sender_id \notin Registered) =>
            /\ o.accounts = [accounts EXCEPT ![cb.promise.receiver_id] = @ - refund]
            /\ o.total_supply = total_supply - refund
            /\ o.logs = <<Log("SenderDeleted", 0, NoAccount, NoAccount),
                          Log("Burn", refund, NoAccount, NoAccount)>>
            /\ o.ret = cb.promise.amount
\* Scenario 3: the sender deregistered before the resolution and part of the
\* amount, reported unused, is burnt.
C8_Witness ==
    \E cb \in Callbacks :
        LET o == DoCallback(cb) IN
        /\ cb.result.status = "Successful"
        /\ cb.promise.sender_id \notin Registered
        /\ ExpectedRefund(cb) > 0
        /\ ExpectedRefund(cb) < cb.promise.amount
        /\ o.ok
        /\ o.total_supply = total_supply - ExpectedRefund(cb)

\* ------------------------------------------------------------ C9
\* C9: a resolution that finds unused = 0, or the receiver holding nothing or
\* not registered, changes no balance, nor total_supply, nor the registered set,
\* logs neither refund nor burn and returns the full amount.
C9_NothingToRefund ==
    \A cb \in Callbacks :
        LET o == DoCallback(cb) IN
        (o.ok /\ ExpectedRefund(cb) = 0) =>
            /\ LedgerUnchanged(o)
            /\ o.logs = <<>>
            /\ o.ret = cb.promise.amount
\* The receiver deregistered before a resolution that has the whole amount to
\* walk back, while value is left in the ledger.
C9_Witness ==
    \E cb \in Callbacks :
        LET o == DoCallback(cb) IN
        /\ cb.promise.receiver_id \notin Registered
        /\ ExpectedUnused(cb.promise.amount, cb.result) > 0
        /\ total_supply > 0
        /\ o.ok
        /\ o.ret = cb.promise.amount

\* ------------------------------------------------------------ C10
\* C10: ft_resolve_transfer called by any account but the contract itself is
\* rejected as private, whatever arguments and result it presents, and leaves
\* balances, registrations and total_supply unchanged.
C10_ExternalResolveRejected ==
    \A call \in ExternalResolveCalls :
        LET o == DoExternalResolve(call) IN
        /\ ~o.ok
        /\ o.panic = "Method is private"
        /\ LedgerUnchanged(o)
        /\ o.logs = <<>>
\* The sender of a pending settlement presents its arguments with a failed
\* notification while the receiver holds the amount, and is rejected.
C10_Witness ==
    \E call \in ExternalResolveCalls :
        LET o == DoExternalResolve(call) IN
        /\ PromiseOf(call.sender_id, call.receiver_id, call.amount) \in BagToSet(promises)
        /\ call.predecessor = call.sender_id
        /\ call.result = Failed
        /\ BalanceIn(accounts, call.receiver_id) >= call.amount
        /\ call.amount > 0
        /\ ~o.ok
        /\ LedgerUnchanged(o)

\* ------------------------------------------------------------ C11
\* C11: for every settlement (sender, receiver, amount), the invocations of the
\* resolution entry point that ran to completion, whoever made them, together
\* with the continuations still scheduled, never outnumber the notify-transfers
\* dispatched for it: a settlement that was resolved is not resolved again.
C11_ResolvedAtMostOnce ==
    /\ ~replayed
    /\ \A p \in BagToSet(promises) : CopiesIn(p, promises) <= CopiesIn(p, unsettled)
\* The one notify-transfer of a settlement is resolved with a refund that leaves
\* value with the receiver; the sender then presents the same arguments with a
\* failed notification, which would refund again, and is rejected.
C11_Witness ==
    \E cb \in Callbacks :
        LET p == cb.promise
            o == DoCallback(cb)
            post == Ctx(Self(o.accounts, o.total_supply), TRUE)
            replay == ft_resolve_transfer(post, p.sender_id, p.sender_id, p.receiver_id,
                                          p.amount, Failed)
            ungated == resolve_transfer(post, p.sender_id, p.receiver_id, p.amount, Failed) IN
        /\ CopiesIn(p, unsettled) = 1
        /\ CopiesIn(p, promises) = 1
        /\ o.ok
        /\ TakenBack(cb, o) > 0
        /\ ungated.panic = NoPanic
        /\ ungated.self.accounts # o.accounts
        /\ replay.panic = "Method is private"

\* ------------------------------------------------------------ C12
\* C12: a resolution fired by the contract's own continuation completes, in a
\* build with and in one without overflow checks and to the same outcome in both,
\* after a well-formed report, a failure and a malformed response alike:
\* receiver_balance - refund, sender_balance + refund, total_supply - refund and
\* amount - refund stay within 0..U128Max, and it returns a value in 0..amount.
C12_CallbackNeverAborts ==
    \A cb \in Callbacks :
        LET o == DoCallback(cb)
            other == DoCallback([cb EXCEPT !.overflow_checks = ~@])
            sender_id == cb.promise.sender_id
            amount == cb.promise.amount
            held == BalanceIn(accounts, cb.promise.receiver_id)
            refund == ExpectedRefund(cb)
            sender_balance == IF sender_id = cb.promise.receiver_id THEN held - refund
                              ELSE BalanceIn(accounts, sender_id) IN
        /\ o.ok
        /\ o = other
        /\ o.ret \in 0..amount
        /\ held - refund >= 0
        /\ amount - refund >= 0
        /\ (refund > 0 /\ sender_id \in Registered) => sender_balance + refund <= U128Max
        /\ (refund > 0 /\ sender_id \notin Registered) => total_supply - refund >= 0
\* A malformed response makes the whole amount unused, and the refund brings the
\* sender's balance to exactly the largest u128, in the build with overflow checks.
C12_Witness ==
    \E cb \in Callbacks :
        LET o == DoCallback(cb) IN
        /\ cb.overflow_checks
        /\ cb.result.status = "Successful"
        /\ (cb.result.json # "string" \/ cb.result.num > U128Max)
        /\ cb.promise.sender_id \in Registered
        /\ ExpectedRefund(cb) = cb.promise.amount
        /\ accounts[cb.promise.sender_id] + ExpectedRefund(cb) = U128Max
        /\ o.ok
        /\ o.ret = cb.promise.amount - ExpectedRefund(cb)

\* ------------------------------------------------------------ C13
\* C13: internal_deposit on a registered account fails with an overflow error
\* whenever balance + amount or total_supply + amount exceeds the largest u128,
\* and then neither the balance nor total_supply is changed, although the balance
\* is written before total_supply is checked; on an account without an entry it
\* fails as not registered.
C13_CreditOverflow ==
    \A call \in InternalCalls :
        LET o == DoInternalDeposit(call)
            balance == BalanceIn(accounts, call.account_id) IN
        /\ call.account_id \notin Registered =>
               /\ ~o.ok
               /\ o.panic = "The account is not registered"
               /\ LedgerUnchanged(o)
        /\ ( /\ call.account_id \in Registered
             /\ \/ balance + call.amount > U128Max
                \/ total_supply + call.amount > U128Max ) =>
               /\ ~o.ok
               /\ o.panic \in {"Balance overflow", "Total supply overflow"}
               /\ LedgerUnchanged(o)
\* The balance fits and is written, total_supply does not fit: the invocation
\* stops with the new balance in the map, and the ledger is left as it was.
C13_Witness ==
    \E call \in InternalCalls :
        LET c == internal_deposit(Here(TRUE), call.account_id, call.amount)
            o == DoInternalDeposit(call) IN
        /\ call.account_id \in Registered
        /\ accounts[call.account_id] + call.amount <= U128Max
        /\ total_supply + call.amount > U128Max
        /\ c.panic = "Total supply overflow"
        /\ c.self.accounts[call.account_id] = accounts[call.account_id] + call.amount
        /\ ~o.ok
        /\ o.accounts[call.account_id] = accounts[call.account_id]
        /\ o.total_supply = total_supply

\* ------------------------------------------------------------ C14
\* C14: internal_withdraw fails as not registered on an account without an entry
\* and as short of balance when amount exceeds the balance, both times leaving
\* every balance and total_supply unchanged; otherwise it takes exactly amount
\* off the account's balance and off total_supply and touches nothing else.
C14_DebitErrors ==
    \A call \in InternalCalls :
        LET o == DoInternalWithdraw(call)
            balance == BalanceIn(accounts, call.account_id) IN
        IF call.account_id \notin Registered
        THEN /\ ~o.ok
             /\ o.panic = "The account is not registered"
             /\ LedgerUnchanged(o)
        ELSE IF call.amount > balance
        THEN /\ ~o.ok
             /\ o.panic = "The account doesn't have enough balance"
             /\ LedgerUnchanged(o)
        ELSE /\ o.ok
             /\ o.accounts = [accounts EXCEPT ![call.account_id] = @ - call.amount]
             /\ o.total_supply = total_supply - call.amount
\* An account holding value is asked for more than it holds, and for what it
\* holds while another account holds value too.
C14_Witness ==
    /\ \E call \in InternalCalls :
           /\ call.account_id \in Registered
           /\ accounts[call.account_id] > 0
           /\ call.amount > accounts[call.account_id]
           /\ ~DoInternalWithdraw(call).ok
    /\ \E call \in InternalCalls :
           LET o == DoInternalWithdraw(call) IN
           /\ call.amount > 0
           /\ o.ok
           /\ o.accounts[call.account_id] = accounts[call.account_id] - call.amount
           /\ o.total_supply > o.accounts[call.account_id]

\* An invocation with outcome o removed no entry but one with a zero balance,
\* and left total_supply as it was if it removed one.
RemovesOnlyEmpty(o) ==
    \A a \in Registered \ DOMAIN o.accounts :
        /\ accounts[a] = 0
        /\ o.total_supply = total_supply

\* ------------------------------------------------------------ C15
\* C15: storage_withdraw by an account holding a balance above zero fails, as
\* holding a positive balance once the payment and the amount are accepted, and
\* the account stays registered with its balance; by an account without an entry
\* it fails, as not registered once the payment and the amount are accepted; and
\* no invocation of any entry point removes an entry unless its balance is zero,
\* nor changes total_supply when it removes one.
C15_Deregistration ==
    /\ \A call \in StorageWithdrawCalls :
           LET o == DoStorageWithdraw(call)
               account_id == call.predecessor
               accepted == /\ call.attached_deposit = 1
                           /\ call.amount = storage_minimum_balance IN
           /\ ~o.ok => LedgerUnchanged(o)
           /\ BalanceIn(accounts, account_id) > 0 =>
                  /\ ~o.ok
                  /\ accepted => o.panic = "The account has positive token balance"
                  /\ account_id \in DOMAIN o.accounts
                  /\ o.accounts[account_id] = accounts[account_id]
           /\ account_id \notin Registered =>
                  /\ ~o.ok
                  /\ accepted => o.panic = "The account is not registered"
           /\ o.ok => o.accounts = remove(accounts, account_id)
    /\ \A call \in InternalCalls : RemovesOnlyEmpty(DoInternalDeposit(call))
    /\ \A call \in InternalCalls : RemovesOnlyEmpty(DoInternalWithdraw(call))
    /\ \A call \in StorageDepositCalls : RemovesOnlyEmpty(DoStorageDeposit(call))
    /\ \A call \in StorageWithdrawCalls : RemovesOnlyEmpty(DoStorageWithdraw(call))
    /\ \A call \in FtTransferCalls : RemovesOnlyEmpty(DoFtTransfer(call))
    /\ \A call \in FtTransferCallCalls : RemovesOnlyEmpty(DoFtTransferCall(call))
    /\ \A cb \in Callbacks : RemovesOnlyEmpty(DoCallback(cb))
    /\ \A call \in ExternalResolveCalls : RemovesOnlyEmpty(DoExternalResolve(call))
\* An account holding value asks to be deregistered with the right payment and
\* amount: its entry is removed, the balance check stops the invocation, and the
\* entry is back; an account without an entry asks too.
C15_Witness ==
    /\ \E call \in StorageWithdrawCalls :
           LET c == storage_withdraw(Here(TRUE), call.predecessor, call.attached_deposit,
                                     call.amount)
               o == DoStorageWithdraw(call) IN
           /\ call.predecessor \in Registered
           /\ accounts[call.predecessor] > 0
           /\ c.panic = "The account has positive token balance"
           /\ call.predecessor \notin DOMAIN c.self.accounts
           /\ o.accounts = accounts
    /\ \E call \in StorageWithdrawCalls :
           /\ call.predecessor \notin Registered
           /\ DoStorageWithdraw(call).panic = "The account is not registered"

\* ------------------------------------------------------------ C16
\* C16: the balances and total_supply a resolution leaves are those left by
\* internal_withdraw(receiver, refund) followed, when the sender is registered,
\* by internal_deposit(sender, refund), and by internal_withdraw(receiver, refund)
\* alone when it is not, run on the ledger the resolution starts from; the
\* primitives fail only for a receiver without an entry, where the refund is
\* zero and both leave the ledger as it is.
C16_ResolutionByPrimitives ==
    \A cb \in Callbacks :
        LET o == DoCallback(cb)
            sender_id == cb.promise.sender_id
            receiver_id == cb.promise.receiver_id
            refund == ExpectedRefund(cb)
            c1 == internal_withdraw(Here(TRUE), receiver_id, refund)
            c2 == IF sender_id \in Registered
                  THEN internal_deposit(c1, sender_id, refund) ELSE c1
            by_primitives == Committed(Self(accounts, total_supply), c2) IN
        /\ o.ok
        /\ o.accounts = by_primitives.accounts
        /\ o.total_supply = by_primitives.total_supply
        /\ c2.panic # NoPanic => (receiver_id \notin Registered /\ refund = 0)
\* A refund to a registered sender: the debit takes total_supply down, the
\* credit brings it back, and the resolution leaves the same ledger.
C16_Witness ==
    \E cb \in Callbacks :
        LET o == DoCallback(cb)
            refund == ExpectedRefund(cb)
            c1 == internal_withdraw(Here(TRUE), cb.promise.receiver_id, refund)
            c2 == internal_deposit(c1, cb.promise.sender_id, refund) IN
        /\ cb.promise.sender_id \in Registered
        /\ refund > 0
        /\ c2.panic = NoPanic
        /\ c1.self.total_supply = total_supply - refund
        /\ o.ok
        /\ o.accounts = c2.self.accounts
        /\ o.accounts # accounts
        /\ o.total_supply = c2.self.total_supply

\* ------------------------------------------------------------ C17
\* C17: ft_transfer_call schedules the notification and its continuation only in
\* an invocation whose phase-1 transfer succeeded, and that invocation commits
\* the full debit of the sender and credit of the receiver together with them;
\* it fails, scheduling nothing and changing nothing, without the payment
\* confirmation, on a self-transfer, a zero amount, an unregistered sender or
\* receiver or a balance below the amount; and the continuations scheduled for
\* a settlement never outnumber its successful phase-1 transfers not yet
\* resolved, each of a positive amount between two different accounts.
C17_NotifyOnlyAfterPhase1 ==
    /\ \A call \in FtTransferCallCalls :
           LET o == DoFtTransferCall(call)
               sender_id == call.predecessor
               receiver_id == call.receiver_id IN
           /\ ( \/ call.attached_deposit # 1
                \/ sender_id = receiver_id
                \/ call.amount = 0
                \/ sender_id \notin Registered
                \/ receiver_id \notin Registered
                \/ call.amount > BalanceIn(accounts, sender_id) ) => ~o.ok
           /\ ~o.ok => (o.created = EmptyBag /\ LedgerUnchanged(o))
           /\ o.ok =>
                  /\ o.created = SetToBag({PromiseOf(sender_id, receiver_id, call.amount)})
                  /\ o.accounts = [accounts EXCEPT ![sender_id] = @ - call.amount,
                                                   ![receiver_id] = @ + call.amount]
                  /\ o.total_supply = total_supply
    /\ \A p \in BagToSet(promises) :
           /\ p.sender_id # p.receiver_id
           /\ p.amount > 0
           /\ CopiesIn(p, promises) <= CopiesIn(p, unsettled)
\* With nothing pending, one call moves the amount and schedules its settlement,
\* and another, for more than the sender holds, fails and schedules nothing.
C17_Witness ==
    /\ BagCardinality(promises) < MaxPending
    /\ \E call \in FtTransferCallCalls :
           LET o == DoFtTransferCall(call) IN
           /\ o.ok
           /\ o.created # EmptyBag
           /\ o.accounts[call.receiver_id] = accounts[call.receiver_id] + call.amount
           /\ o.accounts[call.predecessor] = accounts[call.predecessor] - call.amount
    /\ \E call \in FtTransferCallCalls :
           LET o == DoFtTransferCall(call) IN
           /\ call.attached_deposit = 1
           /\ call.prepaid_gas >= GAS_FOR_FT_TRANSFER_CALL
           /\ call.receiver_id \in Registered
           /\ o.panic = "The account doesn't have enough balance"
           /\ o.created = EmptyBag
           /\ LedgerUnchanged(o)

\* ------------------------------------------------------------ C18
\* C18: when, between the dispatch and the resolution of a notify-transfer from
\* ScenarioA to ScenarioB, ScenarioB has transferred away all it held and has
\* since been paid only by ScenarioC, the settlement is still pending and its
\* resolution takes min(ScenarioB's balance, unused) from ScenarioB, all of it
\* value ScenarioC sent, and credits it to ScenarioA while ScenarioA is
\* registered; and such a run exists.
C18_RefundDrawsForeignValue ==
    LET p == PromiseOf(ScenarioA, ScenarioB, trail.amount) IN
    /\ trail.phase # "idle" => CopiesIn(p, promises) >= 1
    /\ trail.phase = "refilled" =>
           \A cb \in {x \in Callbacks : x.promise = p} :
               LET o == DoCallback(cb)
                   held == BalanceIn(accounts, ScenarioB)
                   unused == ExpectedUnused(p.amount, cb.result) IN
               /\ o.ok
               /\ TakenBack(cb, o) = min(held, unused)
               /\ ScenarioA \in Registered =>
                      o.accounts[ScenarioA] = accounts[ScenarioA] + min(held, unused)
\* ScenarioB spent what ScenarioA sent and holds only what ScenarioC sent; the
\* notification fails and the resolution moves that value to ScenarioA.
C18_Witness ==
    /\ trail.phase = "refilled"
    /\ \E cb \in Callbacks :
           LET o == DoCallback(cb) IN
           /\ cb.promise = PromiseOf(ScenarioA, ScenarioB, trail.amount)
           /\ cb.result = Failed
           /\ o.ok
           /\ TakenBack(cb, o) > 0
           /\ o.accounts[ScenarioA] = accounts[ScenarioA] + TakenBack(cb, o)
           /\ LogsOfKind(o, "Refund") # {}

\* ------------------------------------------------------------ C19
\* C19: the registered accounts are the same before and after every
\* ft_resolve_transfer fired by a continuation, and after the body of the
\* method, which a call from outside never reaches, run with any arguments: a
\* sender without an entry is not given one by a refund, nor a receiver without
\* an entry one holding zero.
C19_ResolutionKeepsRegistered ==
    /\ \A cb \in Callbacks : DOMAIN DoCallback(cb).accounts = Registered
    /\ \A sender_id \in AccountIds, receiver_id \in AccountIds, amount \in Amounts :
           \A result \in {Failed, Successful("string", 0)}, overflow_checks \in BOOLEAN :
               LET c == resolve_transfer(Here(overflow_checks), sender_id, receiver_id,
                                         amount, result) IN
               DOMAIN c.self.accounts = Registered
\* The sender deregistered after the dispatch, the receiver still holds value
\* to take back: it is burnt, and the sender has no entry afterwards.
C19_Witness ==
    \E cb \in Callbacks :
        LET o == DoCallback(cb) IN
        /\ cb.promise.sender_id \notin Registered
        /\ ExpectedRefund(cb) > 0
        /\ o.ok
        /\ TakenBack(cb, o) > 0
        /\ cb.promise.sender_id \notin DOMAIN o.accounts
        /\ DOMAIN o.accounts = Registered

\* An invocation with outcome o kept, of its attached payment less what it paid
\* out, storage_minimum_balance for each entry it added (and paid out no more
\* than that and its attached payment for each entry it removed).
KeepsStorageDeposits(o) ==
    o.deposit - o.paid >=
        storage_minimum_balance * (Cardinality(DOMAIN o.accounts) - Cardinality(Registered))

\* ------------------------------------------------------------ C20
\* C20: the native value received with attached payments less the native value
\* paid out is at least storage_minimum_balance for each registered account.  It
\* is so when the contract is created, with no value and no account, and stays so
\* because, from every reachable state, every invocation of every entry point
\* keeps of its attached payment, less what it pays out, at least
\* storage_minimum_balance for each entry it adds, and pays out no more than
\* that and its attached payment for each entry it removes (an aborted
\* invocation keeps nothing and changes nothing).
C20_StorageDepositsCovered ==
    /\ \A call \in InternalCalls : KeepsStorageDeposits(DoInternalDeposit(call))
    /\ \A call \in InternalCalls : KeepsStorageDeposits(DoInternalWithdraw(call))
    /\ \A call \in StorageDepositCalls : KeepsStorageDeposits(DoStorageDeposit(call))
    /\ \A call \in StorageWithdrawCalls : KeepsStorageDeposits(DoStorageWithdraw(call))
    /\ \A call \in FtTransferCalls : KeepsStorageDeposits(DoFtTransfer(call))
    /\ \A call \in FtTransferCallCalls : KeepsStorageDeposits(DoFtTransferCall(call))
    /\ \A cb \in Callbacks : KeepsStorageDeposits(DoCallback(cb))
    /\ \A call \in ExternalResolveCalls : KeepsStorageDeposits(DoExternalResolve(call))
\* With two accounts registered one deregisters: the contract pays its storage
\* deposit and the attached yocto back and keeps the other's.
C20_Witness ==
    \E call \in StorageWithdrawCalls :
        LET o == DoStorageWithdraw(call) IN
        /\ Cardinality(Registered) >= 2
        /\ o.ok
        /\ o.deposit = 1
        /\ o.paid = storage_minimum_balance + 1
        /\ Cardinality(DOMAIN o.accounts) = Cardinality(Registered) - 1

====
